---- MODULE Spec2Model ----
(***************************************************************************)
(* Library catalogue: the Book document store and its lending lifecycle    *)
(* (borrow / return / renew), as implemented by models/Book.js,            *)
(* controllers/booksController.js, the admin books controller and the      *)
(* migration route.                                                         *)
(*                                                                          *)
(* Time is counted in days.  The clock reads made inside one synchronous   *)
(* model method (new Date() three times in borrowBook) are one instant.    *)
(* JavaScript values that may be undefined or null are tagged records      *)
(* [t, v]; an omitted request field is Undef, as destructuring yields it.  *)
(* Request "weeks" values are omitted, null or integers.                   *)
(***************************************************************************)
EXTENDS Integers, Sequences, FiniteSets, TLC

----------------------------------------------------------------------------
(* Bounds *)

MaxBooks == 2     \* identifiers the store hands out
MaxLent == 1      \* records created in the lending specifications
MaxTime == 1      \* days the clock advances
MaxClients == 2   \* clients with a request in flight
MaxRequests == 4  \* overlapping requests that reach their save()

Ids == 1..MaxBooks
Clients == 1..MaxClients

----------------------------------------------------------------------------
(* JavaScript values *)

Undef == [t |-> "undefined"]
Null == [t |-> "null"]
Str(s) == [t |-> "string", v |-> s]
Num(n) == [t |-> "number", v |-> n]
Bool(b) == [t |-> "boolean", v |-> b]
DateV(d) == [t |-> "date", v |-> d]
ObjectIdV(s) == [t |-> "objectid", v |-> s]
CastError == [t |-> "casterror"]

Absent(x) == x.t \in {"undefined", "null"}

Truthy(x) ==
  CASE x.t = "undefined" -> FALSE
    [] x.t = "null" -> FALSE
    [] x.t = "string" -> x.v # ""
    [] x.t = "number" -> x.v # 0
    [] x.t = "boolean" -> x.v
    [] OTHER -> TRUE

\* Number(x) as applied by the arithmetic weeks * 7.
ToNumber(x) ==
  CASE x.t = "number" -> x.v
    [] x.t = "null" -> 0
    [] OTHER -> 0

\* The identifier of a request: a well-formed id (which may or may not match
\* a record) or a string that does not cast to an ObjectId.
MalformedId == 0
ParamIds == Ids \cup {MalformedId}

\* Cast of a borrower id to Schema.Types.ObjectId: 24 hex characters or a
\* 12 character string cast, anything else is a CastError.
CastObjectId(x) ==
  IF x.t = "string" /\ Len(x.v) \in {12, 24} THEN ObjectIdV(x.v) ELSE CastError

----------------------------------------------------------------------------
(* The Book schema *)

StatusEnum == {"Available", "Borrowed", "Reserved", "Checked Out"}

DefaultMaxRenewals == 2

EmptyBorrower == [userId |-> Undef, name |-> Undef, email |-> Undef]

TitleMaxLength == 200
AuthorMaxLength == 100
DescriptionMaxLength == 1000
YearMin == 1000
RatingMin == 0
RatingMax == 5

\* The calendar year in which the process loaded the schema; the upper bound
\* of publishedYear is computed from it once.
StartYear == 2026
YearMax == StartYear + 1

Fields ==
  {"title", "author", "description", "genre", "category", "isbn",
   "publishedYear", "rating", "available", "status", "borrowedBy",
   "borrowedAt", "dueDate", "borrowDate", "renewalCount", "maxRenewals",
   "createdAt"}

\* Schema defaults; paths without a default stay undefined.
SchemaDefault ==
  [title |-> Undef, author |-> Undef, description |-> Undef,
   genre |-> Str("General"), category |-> Str("General"), isbn |-> Undef,
   publishedYear |-> Undef, rating |-> Num(0),
   available |-> Bool(TRUE), status |-> Str("Available"),
   borrowedBy |-> EmptyBorrower,
   borrowedAt |-> Undef, dueDate |-> Undef, borrowDate |-> Undef,
   renewalCount |-> Num(0), maxRenewals |-> Num(DefaultMaxRenewals),
   createdAt |-> Undef]

PathInvalid_noRatingMax(f, x) ==
  CASE f = "title" ->
         ~(x.t = "string" /\ x.v # "" /\ Len(x.v) <= TitleMaxLength)
    [] f = "author" ->
         ~(x.t = "string" /\ x.v # "" /\ Len(x.v) <= AuthorMaxLength)
    [] f = "description" -> x.t = "string" /\ Len(x.v) > DescriptionMaxLength
    [] f = "publishedYear" ->
         x.t = "nan" \/ (x.t = "number" /\ (x.v < YearMin \/ x.v > YearMax))
    [] f = "rating" -> x.t = "nan" \/ (x.t = "number" /\ x.v < RatingMin)
    [] f = "status" -> ~(x.t = "string" /\ x.v \in StatusEnum)
    [] f \in {"renewalCount", "maxRenewals"} -> x.t = "number" /\ x.v < 0
    [] f = "borrowedBy" -> x.userId.t = "casterror"
    [] OTHER -> FALSE

\* The validators of one path; TRUE when the value is invalid.
PathInvalid(f, x) ==
  CASE f = "title" ->
         ~(x.t = "string" /\ x.v # "" /\ Len(x.v) <= TitleMaxLength)
    [] f = "author" ->
         ~(x.t = "string" /\ x.v # "" /\ Len(x.v) <= AuthorMaxLength)
    [] f = "description" -> x.t = "string" /\ Len(x.v) > DescriptionMaxLength
    [] f = "publishedYear" ->
         x.t = "nan" \/ (x.t = "number" /\ (x.v < YearMin \/ x.v > YearMax))
    [] f = "rating" ->
         x.t = "nan" \/ (x.t = "number" /\ (x.v < RatingMin \/ x.v > RatingMax))
    [] f = "status" -> ~(x.t = "string" /\ x.v \in StatusEnum)
    [] f \in {"renewalCount", "maxRenewals"} -> x.t = "number" /\ x.v < 0
    [] f = "borrowedBy" -> x.userId.t = "casterror"
    [] OTHER -> FALSE

ValidationErrors(doc) == {f \in Fields : PathInvalid(f, doc[f])}

isOverdue_onDueDate(doc, clock) ==
  IF ~Truthy(doc.dueDate) \/ Truthy(doc.available) THEN FALSE
  ELSE clock >= doc.dueDate.v

\* Book.isOverdue
isOverdue(doc, clock) ==
  IF ~Truthy(doc.dueDate) \/ Truthy(doc.available) THEN FALSE
  ELSE clock > doc.dueDate.v

Book_borrowBook_checkedOut(doc, userId, userName, userEmail, weeksArg, clock) ==
  LET weeks == IF weeksArg = Undef THEN Num(3) ELSE weeksArg
  IN [doc EXCEPT
        !.available = Bool(FALSE),
        !.status = Str("Checked Out"),
        !.borrowedBy = [userId |-> CastObjectId(userId),
                        name |-> userName, email |-> userEmail],
        !.borrowedAt = DateV(clock),
        !.borrowDate = DateV(clock),
        !.dueDate = DateV(clock + ToNumber(weeks) * 7)]

\* Book.methods.borrowBook, up to the save
Book_borrowBook(doc, userId, userName, userEmail, weeksArg, clock) ==
  LET weeks == IF weeksArg = Undef THEN Num(3) ELSE weeksArg
  IN [doc EXCEPT
        !.available = Bool(FALSE),
        !.status = Str("Borrowed"),
        !.borrowedBy = [userId |-> CastObjectId(userId),
                        name |-> userName, email |-> userEmail],
        !.borrowedAt = DateV(clock),
        !.borrowDate = DateV(clock),
        !.dueDate = DateV(clock + ToNumber(weeks) * 7)]

Book_returnBook_keepsDueDate(doc) ==
  [doc EXCEPT
     !.available = Bool(TRUE),
     !.status = Str("Available"),
     !.borrowedBy = EmptyBorrower,
     !.borrowedAt = Null,
     !.borrowDate = Null,
     !.renewalCount = Num(0)]

Book_returnBook_keepsCount(doc) ==
  [doc EXCEPT
     !.available = Bool(TRUE),
     !.status = Str("Available"),
     !.borrowedBy = EmptyBorrower,
     !.borrowedAt = Null,
     !.borrowDate = Null,
     !.dueDate = Null]

\* Book.methods.returnBook, up to the save
Book_returnBook(doc) ==
  [doc EXCEPT
     !.available = Bool(TRUE),
     !.status = Str("Available"),
     !.borrowedBy = EmptyBorrower,
     !.borrowedAt = Null,
     !.borrowDate = Null,
     !.dueDate = Null,
     !.renewalCount = Num(0)]

Book_renewError_offByOne(doc) ==
  IF doc.renewalCount.v > doc.maxRenewals.v THEN "RenewalLimitExceeded"
  ELSE IF ~Truthy(doc.dueDate) THEN "NotBorrowed"
  ELSE "none"

\* Book.methods.renewBook: the error thrown, or "none"
Book_renewError(doc) ==
  IF doc.renewalCount.v >= doc.maxRenewals.v THEN "RenewalLimitExceeded"
  ELSE IF ~Truthy(doc.dueDate) THEN "NotBorrowed"
  ELSE "none"

Book_renewBook_threeWeeks(doc, weeksArg) ==
  LET weeks == IF weeksArg = Undef THEN Num(3) ELSE weeksArg
  IN [doc EXCEPT
        !.dueDate = DateV(doc.dueDate.v + ToNumber(weeks) * 7),
        !.renewalCount = Num(doc.renewalCount.v + 1)]

\* Book.methods.renewBook, up to the save, when nothing is thrown
Book_renewBook(doc, weeksArg) ==
  LET weeks == IF weeksArg = Undef THEN Num(2) ELSE weeksArg
  IN [doc EXCEPT
        !.dueDate = DateV(doc.dueDate.v + ToNumber(weeks) * 7),
        !.renewalCount = Num(doc.renewalCount.v + 1)]

\* timestamps: true, the createdAt a document gets when it is inserted.  The
\* instant of an insertion is kept as the ordinal of the inserting request:
\* a later request inserts at a later instant, and the documents of one
\* insertMany share one.
Instant(n) == [t |-> "instant", v |-> n]

\* The pre-save hook of timestamps: true sets createdAt on a new document
\* that has none; a createdAt the document was constructed with is kept.
Stamp(doc, n) ==
  IF doc.createdAt = Undef THEN [doc EXCEPT !.createdAt = Instant(n)] ELSE doc

\* The unique sparse index on isbn: documents that have the path are indexed,
\* and an insert or update of document id to doc is refused with E11000 when
\* another indexed document holds doc's isbn.
DuplicateKey(store, id, doc) ==
  /\ doc.isbn # Undef
  /\ \E j \in DOMAIN store :
       j # id /\ store[j] # Null /\ store[j].isbn = doc.isbn

\* doc.save() of a loaded document: $set of the paths that were modified
\* since the load, applied to the stored document.
SaveModified(stored, loaded, doc) ==
  [f \in Fields |-> IF doc[f] # loaded[f] THEN doc[f] ELSE stored[f]]

----------------------------------------------------------------------------
(* State *)

VARIABLES
  books,     \* the collection: id -> document, Null when no document
  nextId,    \* the next identifier the store hands out
  now,       \* the clock, in days
  inflight,  \* per client: the request suspended at its await of save()
  serving,   \* FALSE once the unhandledRejection handler closed the server
  started,   \* how many requests have been suspended at save() so far
  last       \* the last request answered and its response

vars == <<books, nextId, now, inflight, serving, started, last>>

Idle == [op |-> "idle"]

Response(status, error, fields) ==
  [status |-> status, error |-> error, fields |-> fields]
OK == Response(200, "none", {})
Created == Response(201, "none", {})
Redirect(error) == Response(302, error, {})
NotFound == Response(404, "NotFound", {})
InvalidInput == Response(400, "InvalidInput", {})
ValidationFailed(fields) == Response(400, "ValidationFailed", fields)
NotAvailable == Response(400, "NotAvailable", {})
NotBorrowed == Response(400, "NotBorrowed", {})
RenewalLimitExceeded == Response(400, "RenewalLimitExceeded", {})
DuplicateISBN == Response(400, "DuplicateISBN", {})
Thrown(status, error) == Response(status, error, {})
Unhandled == Response(0, "UnhandledRejection", {})

\* The outcome of a handler: its response and the collection it leaves
Outcome(res, store) == [res |-> res, books |-> store]

Request(op, id, res) == [op |-> op, id |-> id, res |-> res]

Exists(id) == id \in Ids /\ books[id] # Null

Init ==
  /\ books = [i \in Ids |-> Null]
  /\ nextId = 1
  /\ now = 0
  /\ inflight = [c \in Clients |-> Idle]
  /\ serving = TRUE
  /\ started = 0
  /\ last = Request("none", MalformedId, OK)

----------------------------------------------------------------------------
(* Request bodies *)

BodyFields == {"title", "author", "description", "genre", "category", "isbn",
               "publishedYear", "rating", "available", "status",
               "renewalCount", "maxRenewals", "dueDate"}

EmptyBody == [f \in BodyFields |-> Undef]

TitleAuthor == [EmptyBody EXCEPT !.title = Str("1984"), !.author = Str("George Orwell")]

\* Bodies of POST /api/books
CreateBodies ==
  {TitleAuthor,
   [EmptyBody EXCEPT !.title = Str("1984")],
   [TitleAuthor EXCEPT !.available = Bool(FALSE)],
   [TitleAuthor EXCEPT !.status = Str("Lost")],
   [TitleAuthor EXCEPT !.maxRenewals = Num(0)],
   [TitleAuthor EXCEPT !.dueDate = DateV(7)]}

\* Bodies of PUT /api/books/:id
UpdateBodies ==
  {[EmptyBody EXCEPT !.title = Str("Animal Farm")],
   [EmptyBody EXCEPT !.title = Str("")],
   [EmptyBody EXCEPT !.available = Bool(FALSE)],
   [EmptyBody EXCEPT !.renewalCount = Num(3)],
   [EmptyBody EXCEPT !.renewalCount = Num(-1)]}

\* Bodies of the admin add / edit forms
AdminForms ==
  [title : {Str("1984"), Str(" ")},
   author : {Str("George Orwell")},
   description : {Undef},
   genre : {Undef},
   category : {Undef},
   isbn : {Undef},
   publishedYear : {Undef},
   rating : {Undef},
   available : {Undef, Str("true")},
   status : {Undef, Str("Borrowed"), Str("Lost")}]

RECURSIVE Repeat(_, _)
Repeat(s, n) ==
  IF n = 0 THEN ""
  ELSE IF n % 2 = 0 THEN LET half == Repeat(s, n \div 2) IN half \o half
  ELSE s \o Repeat(s, n - 1)

Isbn1984 == Str("978-0-452-28423-4")

\* Bodies of POST /api/books the catalogue specification posts: without an
\* isbn, with one, with a null one, without a title, and with three field
\* constraints broken
PostedBodies ==
  {TitleAuthor,
   [TitleAuthor EXCEPT !.isbn = Isbn1984],
   [TitleAuthor EXCEPT !.isbn = Null],
   [EmptyBody EXCEPT !.author = Str("George Orwell")],
   [TitleAuthor EXCEPT !.rating = Num(RatingMax + 1),
                       !.publishedYear = Num(YearMin - 1),
                       !.title = Str(Repeat("a", TitleMaxLength + 1))]}

\* Bodies of POST /api/books with each field constraint kept and broken
CatalogueBodies ==
  PostedBodies \cup
  {[TitleAuthor EXCEPT !.author = Str("")],
   [TitleAuthor EXCEPT !.title = Str("  ")],
   [TitleAuthor EXCEPT !.title = Str(Repeat("a", TitleMaxLength + 1))],
   [TitleAuthor EXCEPT !.title = Str(Repeat("a", TitleMaxLength))],
   [TitleAuthor EXCEPT !.author = Str(Repeat("a", AuthorMaxLength + 1))],
   [TitleAuthor EXCEPT !.description = Str(Repeat("a", DescriptionMaxLength + 1))],
   [TitleAuthor EXCEPT !.description = Str(Repeat("a", DescriptionMaxLength))],
   [TitleAuthor EXCEPT !.rating = Num(RatingMax + 1)],
   [TitleAuthor EXCEPT !.rating = Num(RatingMin - 1)],
   [TitleAuthor EXCEPT !.publishedYear = Num(YearMin - 1)],
   [TitleAuthor EXCEPT !.publishedYear = Num(YearMax + 1)],
   [TitleAuthor EXCEPT !.rating = Num(RatingMax), !.publishedYear = Num(YearMin)],
   [TitleAuthor EXCEPT !.rating = Num(RatingMin), !.publishedYear = Num(YearMax)]}

\* Bodies of PUT /api/books/:id that edit the catalogue fields
CatalogueUpdates ==
  {[EmptyBody EXCEPT !.isbn = Isbn1984],
   [EmptyBody EXCEPT !.title = Str("")]}

\* The admin add / edit form with and without an isbn and a year
CatalogueForms ==
  [title : {Str("1984")},
   author : {Str("George Orwell")},
   description : {Undef},
   genre : {Undef},
   category : {Undef},
   isbn : {Str(""), Isbn1984},
   publishedYear : {Str(""), Str("999")},
   rating : {Str("")},
   available : {Str("true")},
   status : {Str("Available")}]

Borrower ==
  [userId |-> Str("507f1f77bcf86cd799439011"), userName |-> Str("John Doe"),
   userEmail |-> Str("john@example.com"), weeks |-> Undef]

Borrower2 ==
  [userId |-> Str("507f191e810c19729de860ea"), userName |-> Str("Jane Roe"),
   userEmail |-> Str("jane@example.com"), weeks |-> Undef]

WeeksValues == {Undef, Null, Num(-1), Num(1)}

\* Bodies of POST /api/books/:id/borrow: the README's example body, bodies
\* with one borrower field missing, and a castable borrower id with each
\* weeks value.
BorrowBodies ==
  {[Borrower EXCEPT !.userId = Str("user123")],
   [Borrower EXCEPT !.userId = Undef],
   [Borrower EXCEPT !.userName = Undef],
   [Borrower EXCEPT !.userEmail = Str("")]}
  \cup {[Borrower EXCEPT !.weeks = w] : w \in WeeksValues}

\* Bodies of POST /api/books/:id/renew
RenewBodies == [weeks : WeeksValues]

RECURSIVE TrimStart(_)
TrimStart(s) ==
  IF Len(s) > 0 /\ SubSeq(s, 1, 1) = " " THEN TrimStart(SubSeq(s, 2, Len(s)))
  ELSE s

RECURSIVE TrimEnd(_)
TrimEnd(s) ==
  IF Len(s) > 0 /\ SubSeq(s, Len(s), Len(s)) = " "
  THEN TrimEnd(SubSeq(s, 1, Len(s) - 1))
  ELSE s

\* String.prototype.trim, and the schema's trim: true
Trim(x) == IF x.t = "string" THEN Str(TrimEnd(TrimStart(x.v))) ELSE x

NaN == [t |-> "nan"]

Digits == "0123456789"

DigitValue(c) == CHOOSE d \in 0..9 : SubSeq(Digits, d + 1, d + 1) = c

IsDigit(c) == \E d \in 0..9 : SubSeq(Digits, d + 1, d + 1) = c

RECURSIVE ParseDigits(_, _)
ParseDigits(s, acc) ==
  IF Len(s) = 0 \/ ~IsDigit(SubSeq(s, 1, 1)) THEN acc
  ELSE ParseDigits(SubSeq(s, 2, Len(s)),
                   acc * 10 + DigitValue(SubSeq(s, 1, 1)))

\* parseInt / parseFloat of a form field that holds an unsigned decimal
\* integer or no number at all: the leading digits, NaN when there are none
ParseNumber(x) ==
  LET s == TrimStart(x.v)
  IN IF Len(s) > 0 /\ IsDigit(SubSeq(s, 1, 1)) THEN Num(ParseDigits(s, 0))
     ELSE NaN

----------------------------------------------------------------------------
(* Store operations *)

TrimmedPaths == {"title", "author", "description", "genre", "category", "isbn"}

\* The schema's setters: trim: true on the string paths
Cast(f, x) == IF f \in TrimmedPaths THEN Trim(x) ELSE x

\* new Book(body): the body's paths over the schema defaults
NewDoc(body) ==
  [f \in Fields |->
     IF f \in DOMAIN body /\ body[f] # Undef THEN Cast(f, body[f])
     ELSE SchemaDefault[f]]

\* findByIdAndUpdate: $set of the body's defined paths
ApplyUpdate(doc, body) ==
  [f \in Fields |->
     IF f \in DOMAIN body /\ body[f] # Undef THEN Cast(f, body[f]) ELSE doc[f]]

\* runValidators: true validates the paths the update sets
UpdateErrors(body) ==
  {f \in DOMAIN body : body[f] # Undef /\ PathInvalid(f, Cast(f, body[f]))}

\* staticBooks of the migration route
staticBooks ==
  << [title |-> Str("The Great Gatsby"),
      author |-> Str("F. Scott Fitzgerald"),
      description |->
        Str("A classic novel set in the Jazz Age that explores themes of wealth, love, and the American Dream."),
      isbn |-> Str("978-0-7432-7356-5"),
      category |-> Str("Classic Literature"), genre |-> Str("Classic Literature"),
      available |-> Bool(TRUE), status |-> Str("Available")],
     [title |-> Str("To Kill a Mockingbird"),
      author |-> Str("Harper Lee"),
      description |->
        Str("A gripping tale of racial injustice and childhood innocence in the American South."),
      isbn |-> Str("978-0-06-112008-4"),
      category |-> Str("Fiction"), genre |-> Str("Fiction"),
      available |-> Bool(FALSE), status |-> Str("Borrowed")],
     [title |-> Str("1984"),
      author |-> Str("George Orwell"),
      description |->
        Str("A dystopian masterpiece depicting a totalitarian future where free thought is suppressed."),
      isbn |-> Str("978-0-452-28423-4"),
      category |-> Str("Dystopian Fiction"), genre |-> Str("Dystopian Fiction"),
      available |-> Bool(TRUE), status |-> Str("Available")],
     [title |-> Str("Pride and Prejudice"),
      author |-> Str("Jane Austen"),
      description |->
        Str("A timeless romance exploring manners, marriage, and morality in Regency England."),
      isbn |-> Str("978-0-14-143951-8"),
      category |-> Str("Romance"), genre |-> Str("Romance"),
      available |-> Bool(TRUE), status |-> Str("Available")],
     [title |-> Str("The Catcher in the Rye"),
      author |-> Str("J.D. Salinger"),
      description |->
        Str("A controversial coming-of-age story following teenage rebel Holden Caulfield."),
      isbn |-> Str("978-0-316-76948-0"),
      category |-> Str("Coming of Age"), genre |-> Str("Coming of Age"),
      available |-> Bool(FALSE), status |-> Str("Borrowed")],
     [title |-> Str("Lord of the Flies"),
      author |-> Str("William Golding"),
      description |->
        Str("A dark tale of civilization versus savagery when schoolboys are stranded on an island."),
      isbn |-> Str("978-0-399-50148-7"),
      category |-> Str("Adventure"), genre |-> Str("Adventure"),
      available |-> Bool(TRUE), status |-> Str("Available")],
     [title |-> Str("The Hobbit"),
      author |-> Str("J.R.R. Tolkien"),
      description |->
        Str("An epic fantasy adventure following Bilbo Baggins on his quest to reclaim treasure."),
      isbn |-> Str("978-0-547-92822-7"),
      category |-> Str("Fantasy"), genre |-> Str("Fantasy"),
      available |-> Bool(TRUE), status |-> Str("Available")],
     [title |-> Str("Fahrenheit 451"),
      author |-> Str("Ray Bradbury"),
      description |->
        Str("A dystopian vision of a future where books are banned and firemen burn them."),
      isbn |-> Str("978-1-451-67331-9"),
      category |-> Str("Science Fiction"), genre |-> Str("Science Fiction"),
      available |-> Bool(FALSE), status |-> Str("Borrowed")] >>

\* Book.insertMany(staticBooks) into a store whose next free id is first;
\* a store bounded to cap records holds the prefix of staticBooks that fits.
InsertMany(store, first, cap) ==
  [i \in Ids |->
     IF i >= first /\ i <= cap /\ i - first + 1 <= Len(staticBooks)
     THEN Stamp(NewDoc(staticBooks[i - first + 1]), first)
     ELSE store[i]]

Min(a, b) == IF a < b THEN a ELSE b

----------------------------------------------------------------------------
(* API handlers, controllers/booksController.js.  Each handler is a        *)
(* function from the request and the store to its Outcome, and an action   *)
(* that runs it to its response.                                            *)

\* The step of a handler that answers request op on id with outcome o
Handle(op, id, o) ==
  /\ serving
  /\ books' = o.books
  /\ last' = Request(op, id, o.res)
  /\ UNCHANGED <<now, inflight, started>>

Upper == "ABCDEFGHIJKLMNOPQRSTUVWXYZ"

Lower == "abcdefghijklmnopqrstuvwxyz"

\* Case folding of one character of a text index term
Fold(c) ==
  IF \E k \in 1..26 : SubSeq(Upper, k, k) = c
  THEN LET k == CHOOSE k \in 1..26 : SubSeq(Upper, k, k) = c
       IN SubSeq(Lower, k, k)
  ELSE c

\* The terms of a string in the text index: its words, case folded (word is
\* the term read so far).  Stemming and stop words are left out.
RECURSIVE Terms(_, _)
Terms(s, word) ==
  IF Len(s) = 0 THEN IF word = "" THEN {} ELSE {word}
  ELSE LET c == SubSeq(s, 1, 1)
           rest == SubSeq(s, 2, Len(s))
       IN IF c = " "
          THEN (IF word = "" THEN {} ELSE {word}) \cup Terms(rest, "")
          ELSE Terms(rest, word \o Fold(c))

\* The paths of the text index
TextPaths == {"title", "author", "description"}

\* $text: {$search: q}: a term of q is a term of an indexed path
TextMatch(doc, q) ==
  \E f \in TextPaths :
    /\ doc[f].t = "string"
    /\ Terms(doc[f].v, "") \cap Terms(q, "") # {}

\* Query strings of GET /api/books
Queries ==
  [q : {Undef, Str(""), Str("FARM")},
   category : {Undef, Str("Fiction")},
   genre : {Undef, Str("Satire")},
   available : {Undef, Str("true"), Str("false")},
   status : {Undef, Str("Borrowed")}]

\* A body that carries a createdAt earlier than every insertion
Backdated ==
  [f \in BodyFields \cup {"createdAt"} |->
     IF f = "createdAt" THEN Instant(0) ELSE TitleAuthor[f]]

\* Bodies of POST /api/books the listing specification posts
ListedBodies ==
  {TitleAuthor,
   [TitleAuthor EXCEPT !.category = Str("Fiction"), !.available = Bool(FALSE),
                       !.status = Str("Borrowed")],
   [TitleAuthor EXCEPT !.title = Str("Animal Farm"), !.genre = Str("Satire")],
   [TitleAuthor EXCEPT !.title = Str("Animal Farm"), !.genre = Str("Satire"),
                       !.category = Str("Fiction"), !.available = Bool(FALSE)],
   Backdated}

\* getAllBooks: the filter it builds from req.query
ListFilter(query) ==
  [text |-> IF Truthy(query.q) THEN query.q ELSE Undef,
   category |-> IF Truthy(query.category) THEN query.category ELSE Undef,
   genre |-> IF Truthy(query.genre) THEN query.genre ELSE Undef,
   available |-> IF query.available # Undef
                 THEN Bool(query.available = Str("true")) ELSE Undef,
   status |-> IF Truthy(query.status) THEN query.status ELSE Undef]

\* Equality of a stored value and a filter value
Equal(x, y) == x.t = y.t /\ x = y

\* Book.find(filter): a document matches when it matches every key of filter
Matches(doc, filter) ==
  /\ filter.text # Undef => TextMatch(doc, filter.text.v)
  /\ \A f \in {"category", "genre", "available", "status"} :
       filter[f] # Undef => Equal(doc[f], filter[f])

\* sort({createdAt: -1}): the orders of the ids of S in which no record
\* comes before a newer one; records of one instant come in any order
SortNewestFirst(S) ==
  {data \in [1..Cardinality(S) -> S] :
     /\ \A j, k \in DOMAIN data : j # k => data[j] # data[k]
     /\ \A j, k \in DOMAIN data :
          j < k => books[data[j]].createdAt.v >= books[data[k]].createdAt.v}

\* The response of getAllBooks: success, count and data
Listed(data) ==
  [status |-> 200, error |-> "none", fields |-> {},
   count |-> Len(data), data |-> data]

\* getAllBooks: one outcome for each order the sort may give
getAllResults(query) ==
  LET filter == ListFilter(query)
      found == {i \in Ids : Exists(i) /\ Matches(books[i], filter)}
  IN {Outcome(Listed(data), books) : data \in SortNewestFirst(found)}

\* GET /api/books
getAllBooks(query) ==
  /\ \E o \in getAllResults(query) : Handle("list", MalformedId, o)
  /\ UNCHANGED <<nextId, serving>>

\* createBook
createResult(body) ==
  LET doc == Stamp(NewDoc(body), nextId)
      errs == ValidationErrors(doc)
  IN IF ~Truthy(body.title) \/ ~Truthy(body.author) THEN Outcome(InvalidInput, books)
     ELSE IF errs # {} THEN Outcome(ValidationFailed(errs), books)
     ELSE IF DuplicateKey(books, nextId, doc) THEN Outcome(DuplicateISBN, books)
     ELSE Outcome(Created, [books EXCEPT ![nextId] = doc])

\* POST /api/books
createBook(body) ==
  LET o == createResult(body)
  IN /\ o.res = Created => nextId <= MaxBooks
     /\ Handle("create", nextId, o)
     /\ nextId' = IF o.res = Created THEN nextId + 1 ELSE nextId
     /\ UNCHANGED serving

\* getBookById
getByIdResult(id) ==
  IF ~Exists(id) THEN Outcome(NotFound, books) ELSE Outcome(OK, books)

\* GET /api/books/:id
getBookById(id) ==
  /\ Handle("getById", id, getByIdResult(id))
  /\ UNCHANGED <<nextId, serving>>

\* updateBook.  An E11000 of the isbn index is none of the errors its catch
\* block tells apart and is answered with 500.
updateResult(id, body) ==
  LET errs == UpdateErrors(body)
  IN IF id = MalformedId THEN Outcome(NotFound, books)
     ELSE IF errs # {} THEN Outcome(ValidationFailed(errs), books)
     ELSE IF ~Exists(id) THEN Outcome(NotFound, books)
     ELSE IF DuplicateKey(books, id, ApplyUpdate(books[id], body))
     THEN Outcome(Thrown(500, "ServerError"), books)
     ELSE Outcome(OK, [books EXCEPT ![id] = ApplyUpdate(books[id], body)])

\* PUT /api/books/:id
updateBook(id, body) ==
  /\ Handle("update", id, updateResult(id, body))
  /\ UNCHANGED <<nextId, serving>>

deleteResult_keepsRecord(id) ==
  IF ~Exists(id) THEN Outcome(NotFound, books)
  ELSE Outcome(OK, books)

\* deleteBook
deleteResult(id) ==
  IF ~Exists(id) THEN Outcome(NotFound, books)
  ELSE Outcome(OK, [books EXCEPT ![id] = Null])

\* DELETE /api/books/:id
deleteBook(id) ==
  /\ Handle("delete", id, deleteResult(id))
  /\ UNCHANGED <<nextId, serving>>

borrowCheck_noAvailable(id, body) ==
  IF ~Truthy(body.userId) \/ ~Truthy(body.userName) \/ ~Truthy(body.userEmail)
  THEN InvalidInput
  ELSE IF id = MalformedId THEN Thrown(500, "CastError")
  ELSE IF ~Exists(id) THEN NotFound
  ELSE OK

\* borrowBook, from its entry to the call of book.borrowBook: the response
\* it returns early, or OK when it goes on to the model method.
borrowCheck(id, body) ==
  IF ~Truthy(body.userId) \/ ~Truthy(body.userName) \/ ~Truthy(body.userEmail)
  THEN InvalidInput
  ELSE IF id = MalformedId THEN Thrown(500, "CastError")
  ELSE IF ~Exists(id) THEN NotFound
  ELSE IF ~Truthy(books[id].available) THEN NotAvailable
  ELSE OK

\* returnBook, from its entry to the call of book.returnBook
returnCheck(id) ==
  IF id = MalformedId THEN Thrown(500, "CastError")
  ELSE IF ~Exists(id) THEN NotFound
  ELSE IF Truthy(books[id].available) THEN NotBorrowed
  ELSE OK

\* renewBook, from its entry to the save inside book.renewBook; every error
\* it catches is answered with status 400.
renewCheck(id) ==
  IF id = MalformedId THEN Thrown(400, "CastError")
  ELSE IF ~Exists(id) THEN NotFound
  ELSE IF Book_renewError(books[id]) = "RenewalLimitExceeded" THEN RenewalLimitExceeded
  ELSE IF Book_renewError(books[id]) = "NotBorrowed" THEN NotBorrowed
  ELSE OK

\* The in-memory document a lending handler hands to save()
Mutated(op, id, body) ==
  CASE op = "borrow" ->
         Book_borrowBook(books[id], body.userId, body.userName, body.userEmail,
                         body.weeks, now)
    [] op = "return" -> Book_returnBook(books[id])
    [] op = "renew" -> Book_renewBook(books[id], body.weeks)

\* The status a lending handler's catch block answers with
CatchStatus(op) == IF op = "renew" THEN 400 ELSE 500

Save_updateMany(op, id, loaded, doc) ==
  IF ValidationErrors(doc) # {}
  THEN Outcome(Thrown(CatchStatus(op), "ValidationError"), books)
  ELSE IF ~Exists(id)
  THEN Outcome(Thrown(CatchStatus(op), "DocumentNotFoundError"), books)
  ELSE Outcome(OK, [j \in Ids |-> IF books[j] = Null THEN Null
                                  ELSE SaveModified(books[j], loaded, doc)])

\* await doc.save(), and the response after it: validation, then the write
\* of the modified paths to the stored document.
Save(op, id, loaded, doc) ==
  IF ValidationErrors(doc) # {}
  THEN Outcome(Thrown(CatchStatus(op), "ValidationError"), books)
  ELSE IF ~Exists(id)
  THEN Outcome(Thrown(CatchStatus(op), "DocumentNotFoundError"), books)
  ELSE Outcome(OK, [books EXCEPT ![id] = SaveModified(books[id], loaded, doc)])

Lend(op, id, body, chk) ==
  IF chk # OK THEN Outcome(chk, books)
  ELSE Save(op, id, books[id], Mutated(op, id, body))

\* borrowBook
borrowResult(id, body) == Lend("borrow", id, body, borrowCheck(id, body))

\* returnBook
returnResult(id) == Lend("return", id, Undef, returnCheck(id))

\* renewBook
renewResult(id, body) == Lend("renew", id, body, renewCheck(id))

\* POST /api/books/:id/borrow
borrowBook(id, body) ==
  /\ Handle("borrow", id, borrowResult(id, body))
  /\ UNCHANGED <<nextId, serving>>

\* POST /api/books/:id/return
returnBook(id) ==
  /\ Handle("return", id, returnResult(id))
  /\ UNCHANGED <<nextId, serving>>

\* POST /api/books/:id/renew
renewBook(id, body) ==
  /\ Handle("renew", id, renewResult(id, body))
  /\ UNCHANGED <<nextId, serving>>

\* A day passes
Tick ==
  /\ now < MaxTime
  /\ now' = now + 1
  /\ UNCHANGED <<books, nextId, inflight, serving, started, last>>

----------------------------------------------------------------------------
(* The lending handlers as the server runs them: the handler is suspended  *)
(* at await book.save() and other requests run in between.                 *)

lendFind(c, op, id, body, chk) ==
  /\ serving
  /\ inflight[c] = Idle
  /\ IF chk # OK
     THEN /\ last' = Request(op, id, chk)
          /\ UNCHANGED <<inflight, started>>
     ELSE /\ started < MaxRequests
          /\ started' = started + 1
          /\ inflight' = [inflight EXCEPT ![c] =
                 [op |-> op, id |-> id, loaded |-> books[id],
                  doc |-> Mutated(op, id, body)]]
          /\ UNCHANGED last
  /\ UNCHANGED <<books, nextId, now, serving>>

borrowFind(c, id, body) == lendFind(c, "borrow", id, body, borrowCheck(id, body))

returnFind(c, id) == lendFind(c, "return", id, Undef, returnCheck(id))

renewFind(c, id, body) == lendFind(c, "renew", id, body, renewCheck(id))

lendSave(c) ==
  /\ inflight[c] # Idle
  /\ LET r == inflight[c]
         o == Save(r.op, r.id, r.loaded, r.doc)
     IN /\ books' = o.books
        /\ last' = Request(r.op, r.id, o.res)
  /\ inflight' = [inflight EXCEPT ![c] = Idle]
  /\ UNCHANGED <<nextId, now, serving, started>>

----------------------------------------------------------------------------
(* Admin handlers and the migration route *)

\* Query strings of GET /admin/books: page and limit are omitted or strings
\* of decimal digits
PageQueries ==
  [q : {Undef, Str(" FARM ")},
   page : {Undef, Str("0"), Str("1"), Str("2")},
   limit : {Undef, Str("0"), Str("1"), Str("2")}]

\* Number(x) of a number or of a string of decimal digits
NumberOf(x) == IF x.t = "number" THEN x.v ELSE ParseNumber(x).v

Infinity == [t |-> "infinity"]

\* Math.ceil(a / b) for a >= 0 and b >= 0
CeilDiv(a, b) ==
  IF b = 0 THEN IF a = 0 THEN NaN ELSE Infinity
  ELSE Num((a + b - 1) \div b)

\* skip(n).limit(m) of a cursor over all: limit(0) sets no limit
SkipLimit(all, n, m) ==
  LET to == IF m = 0 THEN Len(all) ELSE Min(n + m, Len(all))
  IN SubSeq(all, n + 1, to)

\* The page listBooks renders
Rendered(data, page, pages, total) ==
  [status |-> 200, error |-> "none", fields |-> {}, data |-> data,
   currentPage |-> page, totalPages |-> pages, totalBooks |-> total]

\* The page listBooks renders from its catch block
RenderedError ==
  [status |-> 500, error |-> "ServerError", fields |-> {}, data |-> <<>>,
   currentPage |-> 1, totalPages |-> Num(1), totalBooks |-> 0]

\* listBooks: one outcome for each order the sort may give.  A negative
\* skip is refused by the store and answered from the catch block.
listBooks(query) ==
  LET page == IF query.page = Undef THEN Num(1) ELSE query.page
      limit == IF query.limit = Undef THEN Num(20) ELSE query.limit
      filter == [text |-> IF Truthy(query.q) /\ Truthy(Trim(query.q))
                          THEN Trim(query.q) ELSE Undef,
                 category |-> Undef, genre |-> Undef, available |-> Undef,
                 status |-> Undef]
      skip == (NumberOf(page) - 1) * NumberOf(limit)
      found == {i \in Ids : Exists(i) /\ Matches(books[i], filter)}
  IN IF skip < 0 THEN {Outcome(RenderedError, books)}
     ELSE {Outcome(Rendered(SkipLimit(all, skip, NumberOf(limit)),
                            NumberOf(page),
                            CeilDiv(Cardinality(found), NumberOf(limit)),
                            Cardinality(found)), books) :
             all \in SortNewestFirst(found)}

\* GET /admin/books
admin_listBooks(query) ==
  /\ \E o \in listBooks(query) : Handle("adminList", MalformedId, o)
  /\ UNCHANGED <<nextId, serving>>

\* The errors object of the admin forms' required-field check
RequiredErrors(form) ==
  {f \in {"title", "author"} : ~Truthy(form[f]) \/ ~Truthy(Trim(form[f]))}

\* x || y
OrElse(x, y) == IF Truthy(x) THEN x ELSE y

\* The object the admin controller builds from the form; noRating is what it
\* puts for a form without a rating.
FormData(form, noRating) ==
  [title |-> Trim(form.title),
   author |-> Trim(form.author),
   description |-> OrElse(Trim(form.description), Str("")),
   genre |-> OrElse(Trim(form.genre), Str("General")),
   category |-> OrElse(Trim(form.category),
                       OrElse(Trim(form.genre), Str("General"))),
   isbn |-> OrElse(Trim(form.isbn), Undef),
   publishedYear |-> IF Truthy(form.publishedYear)
                     THEN ParseNumber(form.publishedYear) ELSE Undef,
   rating |-> IF Truthy(form.rating) THEN ParseNumber(form.rating) ELSE noRating,
   available |-> Bool(form.available = Str("true") \/ form.available = Bool(TRUE)),
   status |-> IF Truthy(form.status) THEN form.status ELSE Str("Available")]

\* bookData of createBook
bookData(form) == FormData(form, Num(0))

\* updateData of updateBook
updateData(form) == FormData(form, Undef)

\* createBook of the admin controller
admin_createResult(form) ==
  LET doc == Stamp(NewDoc(bookData(form)), nextId)
      errs == ValidationErrors(doc)
  IN IF RequiredErrors(form) # {}
     THEN Outcome(Response(400, "InvalidInput", RequiredErrors(form)), books)
     ELSE IF errs # {} THEN Outcome(ValidationFailed(errs), books)
     ELSE IF DuplicateKey(books, nextId, doc)
     THEN Outcome(Response(400, "DuplicateISBN", {"isbn"}), books)
     ELSE Outcome(Redirect("none"), [books EXCEPT ![nextId] = doc])

\* POST /admin/books/add
admin_createBook(form) ==
  LET o == admin_createResult(form)
  IN /\ o.res = Redirect("none") => nextId <= MaxBooks
     /\ Handle("adminCreate", nextId, o)
     /\ nextId' = IF o.res = Redirect("none") THEN nextId + 1 ELSE nextId
     /\ UNCHANGED serving

\* updateBook of the admin controller.  Its catch block reloads the book and
\* calls Object.assign on it: with no such book that throws inside the catch
\* block and the rejection is unhandled.
admin_updateResult(id, form) ==
  LET data == updateData(form)
      errs == UpdateErrors(data)
  IN IF id = MalformedId THEN Outcome(Redirect("Invalid book ID"), books)
     ELSE IF RequiredErrors(form) # {}
     THEN IF Exists(id)
          THEN Outcome(Response(400, "InvalidInput", RequiredErrors(form)), books)
          ELSE Outcome(Redirect("Failed to update book"), books)
     ELSE IF errs # {}
     THEN IF Exists(id) THEN Outcome(ValidationFailed(errs), books)
          ELSE Outcome(Unhandled, books)
     ELSE IF ~Exists(id) THEN Outcome(Redirect("Book not found"), books)
     ELSE IF DuplicateKey(books, id, ApplyUpdate(books[id], data))
     THEN Outcome(Response(400, "DuplicateISBN", {"isbn"}), books)
     ELSE Outcome(Redirect("none"),
                  [books EXCEPT ![id] = ApplyUpdate(books[id], data)])

\* POST /admin/books/:id/edit, and process.on('unhandledRejection')
admin_updateBook(id, form) ==
  LET o == admin_updateResult(id, form)
  IN /\ Handle("adminUpdate", id, o)
     /\ serving' = (o.res # Unhandled)
     /\ UNCHANGED nextId

\* deleteBook of the admin controller
admin_deleteResult(id) ==
  IF id = MalformedId THEN Outcome(Redirect("Invalid book ID"), books)
  ELSE IF ~Exists(id) THEN Outcome(Redirect("Book not found"), books)
  ELSE Outcome(Redirect("none"), [books EXCEPT ![id] = Null])

\* POST /admin/books/:id/delete
admin_deleteBook(id) ==
  /\ Handle("adminDelete", id, admin_deleteResult(id))
  /\ UNCHANGED <<nextId, serving>>

\* GET /admin/migrate-books
migrate(cap) ==
  /\ (\A i \in Ids : books[i] = Null) => nextId <= cap
  /\ Handle("migrate", MalformedId,
            IF \E i \in Ids : books[i] # Null THEN Outcome(OK, books)
            ELSE Outcome(OK, InsertMany(books, nextId, cap)))
  /\ nextId' = IF \E i \in Ids : books[i] # Null THEN nextId
               ELSE Min(nextId + Len(staticBooks), cap + 1)
  /\ UNCHANGED serving

\* POST /admin/migrate-books/reset
migrateReset(cap) ==
  /\ nextId <= cap
  /\ Handle("migrateReset", MalformedId,
            Outcome(Redirect("none"),
                    InsertMany([i \in Ids |-> Null], nextId, cap)))
  /\ nextId' = Min(nextId + Len(staticBooks), cap + 1)
  /\ UNCHANGED serving

----------------------------------------------------------------------------
(* Specifications *)

\* Every route, requests handled one at a time
Next ==
  \/ \E body \in CreateBodies : nextId <= MaxLent /\ createBook(body)
  \/ \E id \in ParamIds : getBookById(id)
  \/ \E id \in ParamIds, body \in UpdateBodies : updateBook(id, body)
  \/ \E id \in ParamIds : deleteBook(id)
  \/ \E id \in ParamIds : borrowBook(id, Borrower)
  \/ \E id \in ParamIds : returnBook(id)
  \/ \E id \in ParamIds : renewBook(id, [weeks |-> Undef])
  \/ \E form \in AdminForms : nextId <= MaxLent /\ admin_createBook(form)
  \/ \E id \in ParamIds, form \in AdminForms : admin_updateBook(id, form)
  \/ \E id \in ParamIds : admin_deleteBook(id)
  \/ migrate(MaxLent)
  \/ migrateReset(MaxLent)
  \/ Tick

Spec == Init /\ [][Next]_vars

\* The lending lifecycle: records are created, with any lending fields the
\* create body carries, and then borrowed, returned and renewed.
NextLending ==
  \/ \E body \in CreateBodies : nextId <= MaxLent /\ createBook(body)
  \/ \E id \in ParamIds, body \in BorrowBodies : borrowBook(id, body)
  \/ \E id \in ParamIds : returnBook(id)
  \/ \E id \in ParamIds, body \in RenewBodies : renewBook(id, body)
  \/ Tick

SpecLending == Init /\ [][NextLending]_vars

\* Lending requests of several clients overlapping on the store
NextRace ==
  \/ nextId <= MaxLent /\ createBook(TitleAuthor)
  \/ \E c \in Clients, id \in Ids, body \in {Borrower, Borrower2} :
        borrowFind(c, id, body)
  \/ \E c \in Clients, id \in Ids : returnFind(c, id)
  \/ \E c \in Clients, id \in Ids, body \in RenewBodies : renewFind(c, id, body)
  \/ \E c \in Clients : lendSave(c)

SpecRace == Init /\ [][NextRace]_vars

\* The catalogue: records are added, looked up, edited and removed through the
\* API, the admin forms and the migration
NextCatalogue ==
  \/ \E body \in PostedBodies : createBook(body)
  \/ \E id \in ParamIds : getBookById(id)
  \/ \E id \in ParamIds, body \in CatalogueUpdates : updateBook(id, body)
  \/ \E id \in ParamIds : deleteBook(id)
  \/ \E form \in CatalogueForms : admin_createBook(form)
  \/ \E id \in ParamIds, form \in CatalogueForms : admin_updateBook(id, form)
  \/ \E id \in ParamIds : admin_deleteBook(id)
  \/ migrate(MaxBooks)
  \/ migrateReset(MaxBooks)

SpecCatalogue == Init /\ [][NextCatalogue]_vars

\* The listing: records are added and removed through the API and listed
\* under every query
NextList ==
  \/ \E body \in ListedBodies : createBook(body)
  \/ \E id \in ParamIds : deleteBook(id)
  \/ \E query \in Queries : getAllBooks(query)

SpecList == Init /\ [][NextList]_vars

\* Bodies of POST /api/books/:id/borrow the shelf specification posts: a
\* castable borrower id, the README's, and a body without a borrower name
ShelfBorrows ==
  {Borrower,
   [Borrower EXCEPT !.userId = Str("user123")],
   [Borrower EXCEPT !.userName = Undef]}

\* A shelf of several records, each borrowed, renewed and returned on its
\* own
NextShelf ==
  \/ createBook(TitleAuthor)
  \/ \E id \in ParamIds : deleteBook(id)
  \/ \E id \in ParamIds, body \in ShelfBorrows : borrowBook(id, body)
  \/ \E id \in ParamIds : returnBook(id)
  \/ \E id \in ParamIds : renewBook(id, [weeks |-> Undef])

SpecShelf == Init /\ [][NextShelf]_vars

\* The admin listing: records are added and removed and listed page by page
NextPages ==
  \/ \E body \in ListedBodies \ {Backdated} : createBook(body)
  \/ \E id \in ParamIds : deleteBook(id)
  \/ \E query \in PageQueries : admin_listBooks(query)

SpecPages == Init /\ [][NextPages]_vars

\* Bodies of POST /api/books without a genre, with a genre (the README's
\* example), and with a genre and a category
GenreBodies ==
  {TitleAuthor,
   [TitleAuthor EXCEPT !.genre = Str("Fiction")],
   [TitleAuthor EXCEPT !.genre = Str("Fiction"), !.category = Str("Classics")]}

\* The admin add form without a genre, with one, and with a category too
GenreForms ==
  [title : {Str("1984")},
   author : {Str("George Orwell")},
   description : {Undef},
   genre : {Str(""), Str("Fiction")},
   category : {Str(""), Str("Classics")},
   isbn : {Str("")},
   publishedYear : {Str("")},
   rating : {Str("")},
   available : {Str("true")},
   status : {Str("Available")}]

\* Records are added, with and without a genre and a category, through the
\* API and through the admin form
NextGenre ==
  \/ \E body \in GenreBodies : createBook(body)
  \/ \E form \in GenreForms : admin_createBook(form)
  \/ \E id \in ParamIds : deleteBook(id)

SpecGenre == Init /\ [][NextGenre]_vars

----------------------------------------------------------------------------
(* Properties *)

NoBorrower(doc) ==
  Absent(doc.borrowedBy.userId) /\ Absent(doc.borrowedBy.name)
    /\ Absent(doc.borrowedBy.email)

\* available == true iff status == 'Available' iff borrowedBy, borrowedAt
\* and dueDate are all absent
AvailabilityInvariant(doc) ==
  /\ (doc.available = Bool(TRUE)) <=> (doc.status = Str("Available"))
  /\ (doc.status = Str("Available")) <=>
       (NoBorrower(doc) /\ Absent(doc.borrowedAt) /\ Absent(doc.dueDate))

\* available == true iff status == 'Available' iff borrowedBy and dueDate
\* are absent
LendingInvariant(doc) ==
  /\ (doc.available = Bool(TRUE)) <=> (doc.status = Str("Available"))
  /\ (doc.status = Str("Available")) <=> (NoBorrower(doc) /\ Absent(doc.dueDate))

HasBorrower(body) ==
  Truthy(body.userId) /\ Truthy(body.userName) /\ Truthy(body.userEmail)

\* C1: in every reachable state of the store, after any sequence of Create,
\* Update (API or admin edit), migration, Delete, Borrow, Return and Renew,
\* every book satisfies the availability invariant.
C1_AvailabilityInvariant ==
  \A i \in Ids : books[i] # Null => AvailabilityInvariant(books[i])

\* C2: a Borrow, Return or Renew step, successful or failed, taken from a
\* state in which a record satisfies the lending invariant leaves it
\* satisfying the invariant; a record created with default lending fields
\* satisfies it to begin with.
C2_LendingPreservesInvariant ==
  [][/\ LendingInvariant(NewDoc(TitleAuthor))
     /\ \A i \in Ids :
          (books[i] # Null /\ LendingInvariant(books[i]))
            => (books'[i] # Null /\ LendingInvariant(books'[i]))]_vars

C2_Witness ==
  /\ last = Request("renew", 1, OK)
  /\ books[1] # Null
  /\ LendingInvariant(books[1])
  /\ books[1].renewalCount = Num(2)

\* C3: a Borrow that reports success wrote to a record that was still
\* available when it wrote: of two overlapping Borrow requests on one
\* record at most one succeeds.
C3_BorrowSerialized ==
  [][\A c \in Clients :
       (/\ inflight[c] # Idle
        /\ inflight[c].op = "borrow"
        /\ inflight'[c] = Idle
        /\ last' = Request("borrow", inflight[c].id, OK))
         => Truthy(books[inflight[c].id].available)]_vars

\* C4 as stated: every Borrow on an existing record with available == false
\* fails with NotAvailable and changes nothing.
C4_Original ==
  \A i \in Ids, body \in BorrowBodies :
    (Exists(i) /\ books[i].available = Bool(FALSE))
      => borrowResult(i, body) = Outcome(NotAvailable, books)

\* C4: a Borrow that carries a borrower id, name and email, on an existing
\* record with available == false, fails with NotAvailable and leaves every
\* field of the record unchanged.
C4_BorrowUnavailable ==
  \A i \in Ids, body \in BorrowBodies :
    (Exists(i) /\ books[i].available = Bool(FALSE) /\ HasBorrower(body))
      => borrowResult(i, body) = Outcome(NotAvailable, books)

C4_Witness ==
  /\ last = Request("borrow", 1, NotAvailable)
  /\ Exists(1)
  /\ books[1].available = Bool(FALSE)
  /\ books[1].status = Str("Borrowed")

\* C5: Borrow with a borrower id, name and email on an existing available
\* record succeeds and sets available, status, borrowedBy, borrowedAt,
\* borrowDate and dueDate = now + weeks * 7 days (weeks 3 when omitted);
\* with a borrower field missing it fails with InvalidInput and changes
\* nothing.
C5_Borrow ==
  \A i \in Ids, body \in BorrowBodies :
    (Exists(i) /\ books[i].available = Bool(TRUE))
      => LET o == borrowResult(i, body)
             w == IF body.weeks = Undef THEN 3 ELSE ToNumber(body.weeks)
         IN IF HasBorrower(body)
            THEN /\ o.res = OK
                 /\ o.books[i].available = Bool(FALSE)
                 /\ o.books[i].status = Str("Borrowed")
                 /\ o.books[i].borrowedBy.userId.v = body.userId.v
                 /\ o.books[i].borrowedBy.name = body.userName
                 /\ o.books[i].borrowedBy.email = body.userEmail
                 /\ o.books[i].borrowedAt = DateV(now)
                 /\ o.books[i].borrowDate = DateV(now)
                 /\ o.books[i].dueDate = DateV(now + w * 7)
            ELSE o = Outcome(InvalidInput, books)

\* C6: Return on an existing record with available == false succeeds and
\* sets available = true, status = 'Available', clears borrowedBy,
\* borrowedAt, borrowDate and dueDate and resets renewalCount to 0; on a
\* record with available == true it fails with NotBorrowed and changes
\* nothing.
C6_Return ==
  \A i \in Ids :
    Exists(i)
      => LET o == returnResult(i)
         IN IF books[i].available = Bool(FALSE)
            THEN /\ o.res = OK
                 /\ o.books[i].available = Bool(TRUE)
                 /\ o.books[i].status = Str("Available")
                 /\ NoBorrower(o.books[i])
                 /\ Absent(o.books[i].borrowedAt)
                 /\ Absent(o.books[i].borrowDate)
                 /\ Absent(o.books[i].dueDate)
                 /\ o.books[i].renewalCount = Num(0)
            ELSE o = Outcome(NotBorrowed, books)

C6_Witness ==
  /\ last = Request("return", 1, OK)
  /\ Exists(1)
  /\ books[1].available = Bool(TRUE)
  /\ books[1].borrowedAt = Null

\* C7: a successful Renew with an extension of w weeks (2 when omitted)
\* adds w * 7 days to dueDate and 1 to renewalCount and changes no other
\* field of the record.
C7_Renew ==
  \A i \in Ids, body \in RenewBodies :
    (Exists(i) /\ renewResult(i, body).res = OK)
      => LET w == IF body.weeks = Undef THEN 2 ELSE ToNumber(body.weeks)
         IN renewResult(i, body).books =
              [books EXCEPT ![i] =
                 [books[i] EXCEPT
                    !.dueDate = DateV(books[i].dueDate.v + w * 7),
                    !.renewalCount = Num(books[i].renewalCount.v + 1)]]

C7_Witness ==
  /\ last = Request("renew", 1, OK)
  /\ Exists(1)
  /\ books[1].renewalCount = Num(1)
  /\ books[1].borrowedAt.t = "date"
  /\ books[1].dueDate = DateV(books[1].borrowedAt.v + 35)

\* C8: on a borrowed record Renew succeeds and counts one renewal while
\* renewalCount < maxRenewals, and once renewalCount has reached maxRenewals
\* it fails with RenewalLimitExceeded and leaves the record as the last
\* successful Renew left it.
C8_RenewalLimit ==
  \A i \in Ids, body \in RenewBodies :
    (Exists(i) /\ Truthy(books[i].dueDate))
      => LET o == renewResult(i, body)
         IN IF books[i].renewalCount.v < books[i].maxRenewals.v
            THEN /\ o.res = OK
                 /\ o.books[i].renewalCount = Num(books[i].renewalCount.v + 1)
            ELSE o = Outcome(RenewalLimitExceeded, books)

C8_Witness ==
  /\ last = Request("renew", 1, RenewalLimitExceeded)
  /\ Exists(1)
  /\ books[1].status = Str("Borrowed")
  /\ books[1].maxRenewals = Num(DefaultMaxRenewals)
  /\ books[1].renewalCount = books[1].maxRenewals

\* C9: Renew on an existing record that is not borrowed (dueDate absent)
\* fails with NotBorrowed, whatever renewalCount and maxRenewals are, and
\* changes nothing.
C9_RenewNotBorrowed ==
  \A i \in Ids, body \in RenewBodies :
    (Exists(i) /\ Absent(books[i].dueDate))
      => renewResult(i, body) = Outcome(NotBorrowed, books)

\* C10: in every reachable state, after any sequence of Create, Update,
\* Borrow, Return and Renew, every book has 0 <= renewalCount <= maxRenewals.
C10_RenewalCountBounded ==
  \A i \in Ids :
    books[i] # Null
      => /\ 0 <= books[i].renewalCount.v
         /\ books[i].renewalCount.v <= books[i].maxRenewals.v

SameOrAbsent(x, y) == x = y \/ (Absent(x) /\ Absent(y))

\* An available record with no borrower data
NotOnLoan(doc) ==
  /\ doc.available = Bool(TRUE)
  /\ NoBorrower(doc)
  /\ Absent(doc.borrowedAt) /\ Absent(doc.borrowDate) /\ Absent(doc.dueDate)

\* after is before in available, status, borrowedBy, borrowedAt, borrowDate
\* and dueDate (an absent value being null or undefined), with renewalCount 0
RoundTrip(before, after) ==
  /\ after.available = before.available
  /\ after.status = before.status
  /\ NoBorrower(after)
  /\ SameOrAbsent(after.borrowedAt, before.borrowedAt)
  /\ SameOrAbsent(after.borrowDate, before.borrowDate)
  /\ SameOrAbsent(after.dueDate, before.dueDate)
  /\ after.renewalCount = Num(0)

\* C11: a Return that follows a successful Borrow of an available record with
\* no borrower data succeeds and leaves the record as it was before the
\* Borrow in available, status, borrowedBy, borrowedAt, borrowDate and
\* dueDate, with renewalCount 0; and a Renew in between changes nothing of
\* what the Return leaves.
C11_BorrowReturnRoundTrip ==
  [][\A i \in Ids :
       /\ (/\ Exists(i)
           /\ NotOnLoan(books[i])
           /\ last' = Request("borrow", i, OK)
           /\ books'[i] # books[i])
            => /\ (returnResult(i).res)' = OK
               /\ RoundTrip(books[i], (returnResult(i).books[i])')
       /\ (/\ Exists(i)
           /\ books[i].available = Bool(FALSE)
           /\ last' = Request("renew", i, OK)
           /\ books'[i] # books[i])
            => /\ (returnResult(i).res)' = returnResult(i).res
               /\ (returnResult(i).books[i])' = returnResult(i).books[i]]_vars

LendingFields ==
  {"available", "status", "borrowedBy", "borrowedAt", "borrowDate", "dueDate",
   "renewalCount", "maxRenewals"}

\* C12: an Update of an existing record, by PUT /api/books/:id or by the
\* admin edit form, leaves available, status, borrowedBy, borrowedAt,
\* borrowDate, dueDate, renewalCount and maxRenewals of the record as they
\* were.
C12_UpdateKeepsLendingFields ==
  \A i \in Ids :
    Exists(i)
      => /\ \A body \in UpdateBodies, f \in LendingFields :
              updateResult(i, body).books[i][f] = books[i][f]
         /\ \A form \in AdminForms, f \in LendingFields :
              admin_updateResult(i, form).books[i][f] = books[i][f]

\* C13: the record a successful Create has just added, by POST /api/books or
\* by the admin add form, has available = true, status = 'Available' and
\* renewalCount = 0.
C13_CreateDefaults ==
  (\/ last.op = "create" /\ last.res = Created
   \/ last.op = "adminCreate" /\ last.res = Redirect("none"))
    => /\ books[last.id].available = Bool(TRUE)
       /\ books[last.id].status = Str("Available")
       /\ books[last.id].renewalCount = Num(0)

\* A body that is accepted but for the isbn index
ValidBody(body) ==
  Truthy(body.title) /\ Truthy(body.author) /\ ValidationErrors(NewDoc(body)) = {}

\* Some record other than id holds the isbn x
HeldByOther(id, x) ==
  \E j \in Ids : j # id /\ Exists(j) /\ books[j].isbn = x

\* C14: no two records hold the same ISBN; a Create (API or admin form) whose
\* ISBN is held by an existing record fails with DuplicateISBN and adds no
\* record; a Create without an ISBN (omitted or null) is never refused as a
\* duplicate.
C14_UniqueISBN ==
  /\ \A i, j \in Ids :
       (i # j /\ Exists(i) /\ Exists(j) /\ ~Absent(books[i].isbn))
         => books[i].isbn # books[j].isbn
  /\ \A body \in CatalogueBodies :
       (nextId \in Ids /\ ValidBody(body))
         => IF Absent(body.isbn)
            THEN createResult(body).res = Created
            ELSE HeldByOther(nextId, body.isbn)
                   => createResult(body) = Outcome(DuplicateISBN, books)
  /\ \A form \in CatalogueForms :
       (nextId \in Ids /\ HeldByOther(nextId, form.isbn)
          /\ ~Truthy(form.publishedYear))
         => /\ admin_createResult(form).res.error = "DuplicateISBN"
            /\ admin_createResult(form).books = books

\* C15: an Update (API or admin form) that sets the ISBN of a record to a
\* value held by a different record fails with DuplicateISBN and leaves the
\* store unchanged.
C15_UpdateDuplicateISBN ==
  \A i \in Ids :
    Exists(i)
      => /\ \A body \in CatalogueUpdates :
              (~Absent(body.isbn) /\ HeldByOther(i, body.isbn))
                => /\ updateResult(i, body).res.error = "DuplicateISBN"
                   /\ updateResult(i, body).books = books
         /\ \A form \in CatalogueForms :
              (HeldByOther(i, form.isbn) /\ ~Truthy(form.publishedYear))
                => /\ admin_updateResult(i, form).res.error = "DuplicateISBN"
                   /\ admin_updateResult(i, form).books = books

IdOps == {"getById", "update", "delete", "borrow", "return", "renew"}

\* C16: a GetById, Update, Delete, Borrow, Return or Renew request with a
\* malformed id is answered with NotFound, as a request with a well-formed
\* id that matches no record is.
C16_MalformedIdNotFound ==
  (last.op \in IdOps /\ last.id = MalformedId) => last.res = NotFound

\* C17 as stated: Delete removes exactly the addressed record and fails with
\* NotFound on an id that resolves to no record; on the id of a removed
\* record GetById, Return and Renew fail with NotFound, and so does every
\* Update and every Borrow, whatever its body.
C17_Original ==
  \A i \in Ids :
    IF Exists(i)
    THEN deleteResult(i) = Outcome(OK, [books EXCEPT ![i] = Null])
    ELSE /\ deleteResult(i) = Outcome(NotFound, books)
         /\ i < nextId
              => /\ getByIdResult(i) = Outcome(NotFound, books)
                 /\ returnResult(i) = Outcome(NotFound, books)
                 /\ \A body \in RenewBodies :
                      renewResult(i, body) = Outcome(NotFound, books)
                 /\ \A body \in CatalogueUpdates \cup UpdateBodies :
                      updateResult(i, body) = Outcome(NotFound, books)
                 /\ \A body \in BorrowBodies :
                      borrowResult(i, body) = Outcome(NotFound, books)

\* C17: Delete removes exactly the addressed record and fails with NotFound
\* on an id that resolves to no record (a second Delete of the same id); on
\* the id of a removed record GetById, Return and Renew fail with NotFound,
\* and so does every Update whose body passes validation and every Borrow
\* that carries a borrower id, name and email; none of them changes the
\* store.
C17_Delete ==
  \A i \in Ids :
    IF Exists(i)
    THEN deleteResult(i) = Outcome(OK, [books EXCEPT ![i] = Null])
    ELSE /\ deleteResult(i) = Outcome(NotFound, books)
         /\ i < nextId
              => /\ getByIdResult(i) = Outcome(NotFound, books)
                 /\ returnResult(i) = Outcome(NotFound, books)
                 /\ \A body \in RenewBodies :
                      renewResult(i, body) = Outcome(NotFound, books)
                 /\ \A body \in CatalogueUpdates \cup UpdateBodies :
                      UpdateErrors(body) = {}
                        => updateResult(i, body) = Outcome(NotFound, books)
                 /\ \A body \in BorrowBodies :
                      HasBorrower(body)
                        => borrowResult(i, body) = Outcome(NotFound, books)

C17_Witness ==
  /\ last = Request("delete", 1, OK)
  /\ ~Exists(1)
  /\ Exists(2)

\* The constraints a body breaks: the length caps of title, author and
\* description, rating within 0..5, year within its bounds
Broken(body) ==
  {f \in {"title", "author", "description", "rating", "publishedYear"} :
     CASE f = "title" -> Len(Trim(body.title).v) > TitleMaxLength
       [] f = "author" -> Len(Trim(body.author).v) > AuthorMaxLength
       [] f = "description" ->
            ~Absent(body.description)
              /\ Len(Trim(body.description).v) > DescriptionMaxLength
       [] f = "rating" ->
            ~Absent(body.rating)
              /\ (body.rating.v < RatingMin \/ body.rating.v > RatingMax)
       [] f = "publishedYear" ->
            ~Absent(body.publishedYear)
              /\ (body.publishedYear.v < YearMin \/ body.publishedYear.v > YearMax)}

Missing(x) == Absent(x) \/ Trim(x) = Str("")

\* C18: a Create without a title or an author fails; a Create that breaks
\* field constraints fails with ValidationFailed naming exactly the fields
\* whose constraint is broken; neither adds a record; and a body that has
\* both and breaks no constraint is not refused as invalid.
C18_CreateValidation ==
  \A body \in CatalogueBodies :
    LET o == createResult(body)
    IN IF Missing(body.title) \/ Missing(body.author)
       THEN o.res.status = 400 /\ o.books = books
       ELSE IF Broken(body) # {}
       THEN o = Outcome(ValidationFailed(Broken(body)), books)
       ELSE o.res \in {Created, DuplicateISBN}

C18_Witness ==
  /\ last.op = "create"
  /\ last.res = ValidationFailed({"title", "rating", "publishedYear"})
  /\ Exists(1)
  /\ last.id = 2
  /\ ~Exists(2)


\* A record satisfies the filters a query supplies
Satisfies(doc, query) ==
  /\ Truthy(query.q) => TextMatch(doc, query.q.v)
  /\ Truthy(query.category) => doc.category = query.category
  /\ Truthy(query.genre) => doc.genre = query.genre
  /\ query.available = Str("true") => doc.available = Bool(TRUE)
  /\ query.available = Str("false") => doc.available = Bool(FALSE)
  /\ Truthy(query.status) => doc.status = query.status

\* C19: List answers every query with exactly the records that satisfy all
\* the filters it supplies (an omitted or empty filter constrains nothing;
\* available=true gives the records with available true, available=false
\* those with available false), each once, no record before one created
\* later, and with count the number of records returned; the store is left
\* unchanged.
C19_List ==
  \A query \in Queries : \A o \in getAllResults(query) :
    LET data == o.res.data
    IN /\ o.res.status = 200
       /\ o.books = books
       /\ {data[k] : k \in DOMAIN data}
            = {i \in Ids : Exists(i) /\ Satisfies(books[i], query)}
       /\ \A j, k \in DOMAIN data : j # k => data[j] # data[k]
       /\ \A j, k \in DOMAIN data : j < k => data[j] > data[k]
       /\ o.res.count = Len(data)

\* C20: no request is fatal to the process: every request is answered and
\* the server keeps serving.
C20_NoFatalFailure == serving /\ last.res # Unhandled

\* The outcomes of the lending requests on id
LendingOutcomes(id) ==
  {borrowResult(id, body) : body \in ShelfBorrows}
    \cup {returnResult(id)}
    \cup {renewResult(id, body) : body \in RenewBodies}

\* C21: a Borrow, Return or Renew, answered with success or with a failure,
\* leaves every record other than the addressed one as it was and neither
\* creates nor deletes a record; a failure leaves the whole store as it was,
\* and a success is one write, to the addressed record.
C21_LendingFrame ==
  \A id \in ParamIds : \A o \in LendingOutcomes(id) :
    /\ \A j \in Ids : j # id => o.books[j] = books[j]
    /\ \A j \in Ids : (o.books[j] = Null) <=> (books[j] = Null)
    /\ o.res # OK => o.books = books
    /\ o.res = OK => /\ Exists(id)
                     /\ o.books = [books EXCEPT ![id] = o.books[id]]

\* C21 witness: the first record has just been borrowed while the second,
\* renewed once on its own loan, is in the store
C21_Witness ==
  /\ last = Request("borrow", 1, OK)
  /\ Exists(1)
  /\ Exists(2)
  /\ books[1].renewalCount = Num(0)
  /\ books[2].available = Bool(FALSE)
  /\ books[2].renewalCount = Num(1)

\* The record is borrowed and its due date has passed
BorrowedPastDue(doc) ==
  /\ doc.available = Bool(FALSE)
  /\ ~Absent(doc.dueDate)
  /\ now > doc.dueDate.v

\* C22: isOverdue of a record is true exactly when the record has available
\* false and a dueDate, and the clock is past the dueDate; serialising the
\* record, which evaluates it, leaves the store as it was; and a step in
\* which the clock advances changes no record.
C22_Overdue ==
  /\ [](\A i \in Ids :
          Exists(i) => /\ isOverdue(books[i], now) <=> BorrowedPastDue(books[i])
                       /\ getByIdResult(i).books = books)
  /\ [][now' # now => books' = books]_vars

\* C22 witness: a record borrowed on day 0 and due the same day has become
\* overdue by the passing of a day
C22_Witness ==
  /\ now = 1
  /\ Exists(1)
  /\ books[1].status = Str("Borrowed")
  /\ books[1].borrowedAt = DateV(0)
  /\ books[1].dueDate = DateV(0)
  /\ isOverdue(books[1], now)
  /\ ~isOverdue(books[1], 0)

\* The ids of S, the newest first
RECURSIVE NewestFirst(_)
NewestFirst(S) ==
  IF S = {} THEN <<>>
  ELSE LET newest == CHOOSE i \in S : \A j \in S : j <= i
       IN <<newest>> \o NewestFirst(S \ {newest})

\* C23: the admin listing with page p and limit L (1 and 20 when omitted)
\* renders the records at positions (p-1)*L to p*L-1, counted from 0, of
\* the matching records taken newest first, reports totalPages =
\* ceil(totalMatches / L) and leaves the store as it was (stated for a
\* store that holds a record).
C23_AdminPage ==
  \A query \in PageQueries : \A o \in listBooks(query) :
    (\E i \in Ids : Exists(i)) =>
    LET p == IF query.page = Undef THEN 1 ELSE NumberOf(query.page)
        L == IF query.limit = Undef THEN 20 ELSE NumberOf(query.limit)
        all == NewestFirst({i \in Ids :
                 /\ Exists(i)
                 /\ Truthy(query.q) => TextMatch(books[i], query.q.v)})
        at == {k \in 0..(Len(all) - 1) : (p - 1) * L <= k /\ k <= p * L - 1}
    IN /\ o.res.status = 200
       /\ o.books = books
       /\ Len(o.res.data) = Cardinality(at)
       /\ \A n \in DOMAIN o.res.data :
            /\ (p - 1) * L + n - 1 \in at
            /\ o.res.data[n] = all[(p - 1) * L + n]
       /\ L > 0 => o.res.totalPages = Num((Len(all) + L - 1) \div L)

\* C24: Borrow on an existing available record succeeds for every body that
\* carries a non-empty userId, userName and userEmail, whatever the userId,
\* the README's 'user123' included.
C24_BorrowAnyBorrowerId ==
  \A i \in Ids, body \in ShelfBorrows :
    (Exists(i) /\ books[i].available = Bool(TRUE) /\ HasBorrower(body))
      => borrowResult(i, body).res = OK

\* The status values the lifecycle writes
LifecycleStatus == {Str("Available"), Str("Borrowed")}

\* C25: no Borrow, Return or Renew sets a status other than 'Available' or
\* 'Borrowed', so on a shelf of records created with default lending fields
\* and changed by lending transitions only, no record ever has the status
\* 'Reserved' or 'Checked Out'.
C25_StatusUnreachable ==
  /\ \A i \in Ids : Exists(i) => books[i].status \in LifecycleStatus
  /\ \A i \in Ids : \A o \in LendingOutcomes(i) :
       (Exists(i) /\ o.books[i].status # books[i].status)
         => o.books[i].status \in LifecycleStatus

\* C25 witness: a record borrowed and renewed twice, beside a record that
\* has been borrowed and returned
C25_Witness ==
  /\ last = Request("renew", 1, OK)
  /\ Exists(1)
  /\ books[1].status = Str("Borrowed")
  /\ books[1].renewalCount = Num(2)
  /\ Exists(2)
  /\ books[2].status = Str("Available")
  /\ books[2].borrowedAt = Null

\* C26: a Create that carries a genre and no category, through the API or
\* through the admin form, adds a record whose category is its genre.
C26_CategoryDefaultsToGenre ==
  [][/\ \A body \in GenreBodies :
          (/\ createBook(body)
           /\ last'.res = Created
           /\ Truthy(body.genre)
           /\ ~Truthy(body.category))
            => books'[nextId].category = books'[nextId].genre
     /\ \A form \in GenreForms :
          (/\ admin_createBook(form)
           /\ last'.res = Redirect("none")
           /\ Truthy(form.genre)
           /\ ~Truthy(form.category))
            => books'[nextId].category = books'[nextId].genre]_vars

\* C27: when Return and Renew requests on one borrowed record overlap, the
\* stored record is never left with available true together with a dueDate
\* or with a renewalCount above 0.
C27_ReturnRenewOverlap ==
  \A i \in Ids :
    (Exists(i) /\ books[i].available = Bool(TRUE))
      => /\ Absent(books[i].dueDate)
         /\ books[i].renewalCount = Num(0)

\* C28: within a loan every Renew that reports success, overlapping another
\* Renew or not, extends the stored dueDate by its own weeks * 7 days and
\* adds one to the stored renewalCount, which stays within maxRenewals: the
\* successes of one loan are counted and never exceed maxRenewals.
C28_RenewalsCounted ==
  [][\A c \in Clients :
       (/\ inflight[c] # Idle
        /\ inflight[c].op = "renew"
        /\ inflight'[c] = Idle
        /\ last' = Request("renew", inflight[c].id, OK)
        /\ books[inflight[c].id].available = Bool(FALSE)
        /\ ~Absent(books[inflight[c].id].dueDate))
         => LET r == inflight[c]
                days == r.doc.dueDate.v - r.loaded.dueDate.v
            IN /\ books'[r.id].dueDate = DateV(books[r.id].dueDate.v + days)
               /\ books'[r.id].renewalCount
                    = Num(books[r.id].renewalCount.v + 1)
               /\ books'[r.id].renewalCount.v <= books'[r.id].maxRenewals.v]_vars

\* C29: for every weeks value a request may carry, a Borrow that succeeds
\* leaves the record with a dueDate later than its borrowedAt, and a Renew
\* that succeeds leaves it with a dueDate later than the one it had.
C29_DatesMoveForward ==
  \A i \in Ids :
    /\ \A body \in BorrowBodies :
         LET o == borrowResult(i, body)
         IN o.res = OK => o.books[i].dueDate.v > o.books[i].borrowedAt.v
    /\ \A body \in RenewBodies :
         LET o == renewResult(i, body)
         IN o.res = OK => o.books[i].dueDate.v > books[i].dueDate.v

\* How many Renews in a row succeed on doc before one is refused
RECURSIVE RenewsLeft(_)
RenewsLeft(doc) ==
  IF Book_renewError(doc) # "none" THEN 0
  ELSE 1 + RenewsLeft(Book_renewBook(doc, Undef))

\* doc after n Renews
RECURSIVE Renewed(_, _)
Renewed(doc, n) ==
  IF n = 0 THEN doc ELSE Renewed(Book_renewBook(doc, Undef), n - 1)

\* C30: the renewal cap counts per loan: when a record on loan with
\* renewalCount = maxRenewals is returned and borrowed again, Renew succeeds
\* on it maxRenewals times and is then refused with RenewalLimitExceeded.
C30_CapPerLoan ==
  \A i \in Ids :
    (/\ Exists(i)
     /\ books[i].available = Bool(FALSE)
     /\ ~Absent(books[i].dueDate)
     /\ books[i].renewalCount = books[i].maxRenewals)
      => LET returned == returnResult(i)
             again == Book_borrowBook(returned.books[i], Borrower.userId,
                                      Borrower.userName, Borrower.userEmail,
                                      Borrower.weeks, now)
         IN /\ renewResult(i, [weeks |-> Undef]).res = RenewalLimitExceeded
            /\ returned.res = OK
            /\ Truthy(returned.books[i].available)
            /\ ValidationErrors(again) = {}
            /\ RenewsLeft(again) = again.maxRenewals.v
            /\ Book_renewError(Renewed(again, again.maxRenewals.v))
                 = "RenewalLimitExceeded"

\* C30 witness: a record borrowed on day 1 has been renewed up to its cap of
\* two and its next Renew has been refused
C30_Witness ==
  /\ last = Request("renew", 1, RenewalLimitExceeded)
  /\ Exists(1)
  /\ books[1].available = Bool(FALSE)
  /\ books[1].borrowedAt = DateV(1)
  /\ books[1].renewalCount = Num(2)
  /\ books[1].maxRenewals = Num(2)

====
